---- MODULE Spec2Model ----
(***************************************************************************)
(* Booking lifecycle of the car-rental backend: src/routes/bookings.js     *)
(* (first router, lines 1-864) over the Mongoose models Booking, Customer, *)
(* Driver and Car.  Every handler is split at its `await` points, so that  *)
(* one specification runs the requests one at a time (Spec) and another    *)
(* lets the steps of two requests interleave (ConcSpec).                   *)
(*                                                                         *)
(* Money is kept in whole units; every figure that the code obtains with a *)
(* division by 100 is carried multiplied by 100 (suffix x100).             *)
(* Absent values (JavaScript undefined / "" / 0, all falsy) are 0 or "".   *)
(***************************************************************************)
EXTENDS Integers, Sequences, FiniteSets, TLC

\* ---------------------------------------------------------------- bounds
MaxRequests == 3      \* requests accepted in one behaviour
MaxDate     == 3      \* calendar days 1..MaxDate

Cars      == {1, 2}   \* the Car documents
Drivers   == {1, 2}   \* the Driver documents
Dates     == 1..MaxDate
Slots     == {1, 2}   \* requests whose steps may interleave (ConcSpec)
UnknownCar    == CHOOSE c \in 1..3 : c \notin Cars        \* an id that resolves to no Car
UnknownDriver == CHOOSE d \in 1..3 : d \notin Drivers     \* an id that resolves to no Driver

\* ------------------------------------------------------- stored documents
\* Absent values: 0 for ids, numbers and dates, "" for strings (both falsy in
\* JavaScript, both failing a Mongoose `required`).
\* BookingSchema, src/models/Booking.js:4-142.  id = position in `bookings`.
NoBooking == [carId |-> 0, driverId |-> 0, driverPreference |-> "", tripType |-> "",
              cityName |-> "", startDate |-> 0, endDate |-> 0, meterReading |-> 0,
              totalBill |-> 0, advancePaid |-> 0, discountPercentage |-> 0,
              discountReference |-> "", tripStartTime |-> "", tripDescription |-> "",
              customerLicenseNumber |-> "", customerId |-> 0, endTime |-> "",
              status |-> "",
              \* what cancel and end assign besides: no paths of BookingSchema
              finalMeterReading |-> 0, additionalCharges |-> 0,
              remainingPaymentReceived |-> 0, completedAt |-> 0, completedBy |-> "",
              cancellationReason |-> "", cancelledAt |-> 0, cancelledBy |-> ""]

\* the paths BookingSchema declares (timestamps: true adds createdAt, updatedAt)
BookingSchemaPaths ==
    {"carId", "meterReading", "customerId", "driverId", "tripType", "tripStartTime",
     "tripDescription", "driverPreference", "customerLicenseNumber", "cityName",
     "startDate", "endDate", "startTime", "endTime", "totalBill", "advancePaid",
     "discountPercentage", "discountReference", "bookedBy", "status",
     "createdAt", "updatedAt"}

\* req.user.id, set by the auth middleware
UserId == "user-1"

\* CustomerSchema, src/models/Customer.js:4-50.  id = position in `customers`.
NoCustomer == [id |-> 0, phoneNumber |-> "", idCardNumber |-> "", careOf |-> "",
               bookingCount |-> 0]

\* /^[0-9]{11}$/ of CustomerSchema.phoneNumber, on the phone numbers used here
PhoneMatches(p) == p \in {"03001111111", "03002222222"}

\* /^([01]?[0-9]|2[0-3]):[0-5][0-9]$/ of BookingSchema, on the times used here
TimeMatches(t) == t \in {"09:30", "18:45"}

VARIABLES bookings,      \* Seq of Booking documents
          customers,     \* Seq of Customer documents
          available,     \* Driver.available, per Driver document
          omitUndefined, \* TRUE: the update caster drops undefined keys; FALSE: it stores null
          carDeleted,    \* per Car document, the stored value of `deleted` (absent: FALSE)
          req,           \* per slot: the request being served
          nreq,          \* requests accepted so far
          hist,          \* per booking, what happened to it (history, read by no handler)
          softDeleted    \* the vehicles whose delete was answered 200 with deleted: true
                         \* (history, read by no handler)

vars == <<bookings, customers, available, omitUndefined, carDeleted, req, nreq, hist,
          softDeleted>>

\* history of one booking: the driver assigned at creation, the number of bookings
\* stored when its availability check ran, the cancel/end requests answered 200
NoHist == [driverAtCreate |-> 0, checkedAt |-> 0, ok |-> 0, okStatus |-> ""]

NoResp == [status |-> 0, error |-> "", remainingx100 |-> 0, totalAmount |-> 0,
           discountedTotalx100 |-> 0, deleted |-> FALSE]

\* a request body (and the :bookingId of the path); one shape for all routes
NoArgs == [bookingId |-> 0, carId |-> 0, driverId |-> 0, driverPreference |-> "",
           tripType |-> "", cityName |-> "", startDate |-> 0, endDate |-> 0,
           meterReading |-> 0, totalBill |-> 0, advancePaid |-> 0,
           discountPercentage |-> 0, discountReference |-> "", customerName |-> "",
           cellNumber |-> "", careOf |-> "", idCardNumber |-> "",
           tripStartTime |-> "", tripDescription |-> "", customerLicenseNumber |-> "",
           endTime |-> "", finalMeterReading |-> 0, additionalCharges |-> 0,
           remainingPayment |-> 0, cancellationReason |-> ""]

\* op, pc: the route and the await point reached; id: the booking; a: the body;
\* read: the booking as findById returned it; doc: the in-memory document;
\* cust: the in-memory customer; n0: the bookings stored on arrival; c0: the
\* customers stored on arrival; av0: the drivers' flags on arrival (n0, c0 and
\* av0 are read by no handler)
Idle == [op |-> "none", pc |-> "idle", id |-> 0, a |-> NoArgs, read |-> NoBooking,
         doc |-> NoBooking, cust |-> NoCustomer, n0 |-> 0, c0 |-> <<>>, av0 |-> <<>>,
         resp |-> NoResp]

Respond(r, st, err) == [r EXCEPT !.pc = "done", !.resp = [NoResp EXCEPT !.status = st, !.error = err]]

\* ------------------------------------------------------------ pure parts
\* virtual('discountedTotalAmount'), times 100
DiscountedTotalx100(b) == b.totalBill * 100 - b.totalBill * b.discountPercentage

\* virtual('remainingBalance'), times 100
RemainingBalancex100(b) == DiscountedTotalx100(b) - b.advancePaid * 100

\* remainingAmount of router.get("/"), times 100
ListRemainingx100(b) == (b.totalBill - b.advancePaid) * 100

\* remainingAmount of router.get("/active"), times 100
ActiveRemainingx100(b) == (b.totalBill - b.advancePaid) * 100

\* remainingAmount of router.get("/status/:status"), times 100
StatusRemainingx100(b) == RemainingBalancex100(b)

\* billing.remaining of router.get("/:bookingId/details"), times 100
DetailsRemainingx100(b) ==
    LET discountAmountx100 == b.totalBill * b.discountPercentage
        discountedTotalx100 == b.totalBill * 100 - discountAmountx100
    IN  discountedTotalx100 - b.advancePaid * 100

\* billing.remaining of router.get("/:bookingId/edit"), times 100
EditViewRemainingx100(b) ==
    LET discountAmountx100 == b.totalBill * b.discountPercentage
        discountedTotalx100 == b.totalBill * 100 - discountAmountx100
    IN  discountedTotalx100 - b.advancePaid * 100

\* mutant: the boundaries compared exclusively ($lt / $gt)
ConflictingBookingsExclusive(bs, carId, startDate, endDate, excludeBookingId) ==
    { i \in 1..Len(bs) :
        /\ bs[i].carId = carId
        /\ bs[i].status = "active"
        /\ bs[i].startDate < endDate
        /\ bs[i].endDate > startDate
        /\ (excludeBookingId # 0 => i # excludeBookingId) }

\* mutant: every booking that is not cancelled blocks
ConflictingBookingsNotCancelled(bs, carId, startDate, endDate, excludeBookingId) ==
    { i \in 1..Len(bs) :
        /\ bs[i].carId = carId
        /\ bs[i].status # "cancelled"
        /\ bs[i].startDate <= endDate
        /\ bs[i].endDate >= startDate
        /\ (excludeBookingId # 0 => i # excludeBookingId) }

\* mutant: only a stored booking that starts within the requested range conflicts
ConflictingBookingsStartWithin(bs, carId, startDate, endDate, excludeBookingId) ==
    { i \in 1..Len(bs) :
        /\ bs[i].carId = carId
        /\ bs[i].status = "active"
        /\ bs[i].startDate <= endDate
        /\ bs[i].startDate >= startDate
        /\ (excludeBookingId # 0 => i # excludeBookingId) }

\* the Mongo query of checkAvailability: the bookings it matches
ConflictingBookings(bs, carId, startDate, endDate, excludeBookingId) ==
    { i \in 1..Len(bs) :
        /\ bs[i].carId = carId
        /\ bs[i].status = "active"
        /\ bs[i].startDate <= endDate
        /\ bs[i].endDate >= startDate
        /\ (excludeBookingId # 0 => i # excludeBookingId) }

\* mutant: the availability check answers true whatever is stored
CheckAvailabilityAlways(bs, carId, startDate, endDate, excludeBookingId) == TRUE

checkAvailability(bs, carId, startDate, endDate, excludeBookingId) ==
    ConflictingBookings(bs, carId, startDate, endDate, excludeBookingId) = {}


\* ------------------------------------------------------------------ Init
Init ==
    /\ bookings = <<>>
    /\ customers = <<>>
    /\ available = [d \in Drivers |-> TRUE]
    /\ omitUndefined \in BOOLEAN
    /\ carDeleted = [c \in Cars |-> FALSE]
    /\ req = [s \in Slots |-> Idle]
    /\ nreq = 0
    /\ hist = <<>>
    /\ softDeleted = {}

\* a request is accepted into a free slot
Accept(s) == req[s] = Idle /\ nreq < MaxRequests

\* ---------------------------------------------------------------- create
\* router.post("/"): the checks before anything is written.  <<0, "">>: all passed.
CreateChecks(a, bs) ==
    IF \/ a.carId = 0 \/ a.tripType = "" \/ a.startDate = 0 \/ a.endDate = 0
       \/ a.meterReading = 0 \/ a.totalBill = 0 \/ a.advancePaid = 0
       \/ a.customerName = "" \/ a.cellNumber = "" \/ a.idCardNumber = ""
       \/ a.tripStartTime = "" \/ a.driverPreference = ""
    THEN <<400, "All required fields must be provided">>
    ELSE IF a.carId \notin Cars
    THEN <<404, "Car not found">>
    ELSE IF a.driverPreference = "driver" /\ a.driverId = 0
    THEN <<400, "Driver ID is required when driver preference is 'driver'">>
    ELSE IF a.driverPreference = "driver" /\ a.driverId \notin Drivers
    THEN <<404, "Driver not found">>
    ELSE IF ~checkAvailability(bs, a.carId, a.startDate, a.endDate, 0)
    THEN <<400, "Car is not available for selected dates">>
    ELSE IF a.tripType = "outofcity" /\ a.cityName = ""
    THEN <<400, "City name is required for out-of-city trips">>
    ELSE <<0, "">>

\* new Booking({...}) of router.post("/")
NewBooking(a, customerId) ==
    [carId |-> a.carId,
     driverId |-> IF a.driverPreference = "driver" THEN a.driverId ELSE 0,
     driverPreference |-> a.driverPreference,
     tripType |-> IF a.tripType = "out-of-city" THEN "outofcity" ELSE "withincity",
     cityName |-> IF a.tripType = "out-of-city" THEN a.cityName ELSE "",
     startDate |-> a.startDate,
     endDate |-> a.endDate,
     meterReading |-> a.meterReading,
     totalBill |-> a.totalBill,
     advancePaid |-> a.advancePaid,
     discountPercentage |-> a.discountPercentage,
     discountReference |-> IF a.discountPercentage > 0 THEN a.discountReference ELSE "",
     tripStartTime |-> a.tripStartTime,
     tripDescription |-> a.tripDescription,
     customerLicenseNumber |-> IF a.driverPreference = "self" THEN a.customerLicenseNumber ELSE "",
     customerId |-> customerId,
     endTime |-> "",
     status |-> "active",
     finalMeterReading |-> 0, additionalCharges |-> 0, remainingPaymentReceived |-> 0,
     completedAt |-> 0, completedBy |-> "",
     cancellationReason |-> "", cancelledAt |-> 0, cancelledBy |-> ""]

\* mutant: the advancePaid validator left out
ValidBookingNoAdvance(b) ==
    /\ b.carId # 0
    /\ b.customerId # 0
    /\ (b.driverPreference = "driver" => b.driverId # 0)
    /\ b.tripType \in {"withincity", "outofcity"}
    /\ TimeMatches(b.tripStartTime)
    /\ b.driverPreference \in {"driver", "self"}
    /\ (b.tripType = "outofcity" => b.cityName # "")
    /\ b.startDate # 0
    /\ b.endDate # 0
    /\ b.endDate >= b.startDate
    /\ b.totalBill >= 0
    /\ b.advancePaid >= 0
    /\ b.discountPercentage >= 0
    /\ b.discountPercentage <= 100
    /\ (b.discountPercentage > 0 => b.discountReference # "")
    /\ (b.endTime # "" => TimeMatches(b.endTime))
    /\ b.status \in {"active", "completed", "cancelled"}

\* mutant: discountReference never required
ValidBookingNoReference(b) ==
    /\ b.carId # 0
    /\ b.customerId # 0
    /\ (b.driverPreference = "driver" => b.driverId # 0)
    /\ b.tripType \in {"withincity", "outofcity"}
    /\ TimeMatches(b.tripStartTime)
    /\ b.driverPreference \in {"driver", "self"}
    /\ (b.tripType = "outofcity" => b.cityName # "")
    /\ b.startDate # 0
    /\ b.endDate # 0
    /\ b.endDate >= b.startDate
    /\ b.totalBill >= 0
    /\ b.advancePaid >= 0
    /\ b.advancePaid <= b.totalBill
    /\ b.discountPercentage >= 0
    /\ b.discountPercentage <= 100
    /\ (b.endTime # "" => TimeMatches(b.endTime))
    /\ b.status \in {"active", "completed", "cancelled"}

\* the validators of BookingSchema, as document.save() runs them
ValidBooking(b) ==
    /\ b.carId # 0
    /\ b.customerId # 0
    /\ (b.driverPreference = "driver" => b.driverId # 0)
    /\ b.tripType \in {"withincity", "outofcity"}
    /\ TimeMatches(b.tripStartTime)
    /\ b.driverPreference \in {"driver", "self"}
    /\ (b.tripType = "outofcity" => b.cityName # "")
    /\ b.startDate # 0
    /\ b.endDate # 0
    /\ b.endDate >= b.startDate
    /\ b.totalBill >= 0
    /\ b.advancePaid >= 0
    /\ b.advancePaid <= b.totalBill
    /\ b.discountPercentage >= 0
    /\ b.discountPercentage <= 100
    /\ (b.discountPercentage > 0 => b.discountReference # "")
    /\ (b.endTime # "" => TimeMatches(b.endTime))
    /\ b.status \in {"active", "completed", "cancelled"}

\* the validators of CustomerSchema
ValidCustomer(c) ==
    /\ c.careOf # ""
    /\ c.idCardNumber # ""
    /\ PhoneMatches(c.phoneNumber)

\* lines 10-73: the request arrives and is checked
CreateCheck(s, a) ==
    /\ Accept(s)
    /\ LET chk == CreateChecks(a, bookings)
           r   == [Idle EXCEPT !.op = "create", !.a = a, !.n0 = Len(bookings),
                               !.c0 = customers]
       IN  req' = [req EXCEPT ![s] =
                     IF chk[1] # 0 THEN Respond(r, chk[1], chk[2])
                     ELSE [r EXCEPT !.pc = "custFind"]]
    /\ nreq' = nreq + 1
    /\ UNCHANGED <<bookings, customers, available, omitUndefined, carDeleted, hist, softDeleted>>

\* mutant: an existing customer's bookingCount is not incremented
CreateCustomerFindNoIncrement(s) ==
    /\ req[s].op = "create" /\ req[s].pc = "custFind"
    /\ LET a == req[s].a
           found == { i \in 1..Len(customers) :
                        \/ customers[i].phoneNumber = a.cellNumber
                        \/ customers[i].idCardNumber = a.idCardNumber }
       IN  IF found = {}
           THEN req' = [req EXCEPT ![s].pc = "custSave",
                            ![s].cust = [id |-> 0, phoneNumber |-> a.cellNumber,
                                         idCardNumber |-> a.idCardNumber,
                                         careOf |-> a.careOf, bookingCount |-> 1]]
           ELSE \E i \in found :
                  req' = [req EXCEPT ![s].pc = "custSave",
                            ![s].cust = [customers[i] EXCEPT !.careOf = a.careOf]]
    /\ UNCHANGED <<bookings, customers, available, omitUndefined, carDeleted, nreq, hist, softDeleted>>

\* lines 75-101: Customer.findOne by phone or id card, then the in-memory upsert
CreateCustomerFind(s) ==
    /\ req[s].op = "create" /\ req[s].pc = "custFind"
    /\ LET a == req[s].a
           found == { i \in 1..Len(customers) :
                        \/ customers[i].phoneNumber = a.cellNumber
                        \/ customers[i].idCardNumber = a.idCardNumber }
       IN  IF found = {}
           THEN req' = [req EXCEPT ![s].pc = "custSave",
                            ![s].cust = [id |-> 0, phoneNumber |-> a.cellNumber,
                                         idCardNumber |-> a.idCardNumber,
                                         careOf |-> a.careOf, bookingCount |-> 1]]
           ELSE \E i \in found :
                  req' = [req EXCEPT ![s].pc = "custSave",
                            ![s].cust = [customers[i] EXCEPT
                                           !.bookingCount = @ + 1,
                                           !.careOf = a.careOf]]
    /\ UNCHANGED <<bookings, customers, available, omitUndefined, carDeleted, nreq, hist, softDeleted>>

\* line 103: customer.save()
CreateCustomerSave(s) ==
    /\ req[s].op = "create" /\ req[s].pc = "custSave"
    /\ LET c == req[s].cust
           dup == \E i \in 1..Len(customers) :
                     \/ customers[i].phoneNumber = c.phoneNumber
                     \/ customers[i].idCardNumber = c.idCardNumber
       IN  IF ~ValidCustomer(c)
           THEN /\ req' = [req EXCEPT ![s] = Respond(@, 400, "ValidationError")]
                /\ UNCHANGED customers
           ELSE IF c.id = 0 /\ dup
           THEN /\ req' = [req EXCEPT ![s] = Respond(@, 500, "Failed to create booking")]
                /\ UNCHANGED customers
           ELSE IF c.id = 0
           THEN /\ customers' = Append(customers, [c EXCEPT !.id = Len(customers) + 1])
                /\ req' = [req EXCEPT ![s].pc = "bookSave",
                                      ![s].cust.id = Len(customers) + 1]
           ELSE /\ customers' = [customers EXCEPT ![c.id].bookingCount = c.bookingCount,
                                                  ![c.id].careOf = c.careOf]
                /\ req' = [req EXCEPT ![s].pc = "bookSave"]
    /\ UNCHANGED <<bookings, available, omitUndefined, carDeleted, nreq, hist, softDeleted>>

\* lines 105-128: new Booking(...).save()
CreateBookingSave(s) ==
    /\ req[s].op = "create" /\ req[s].pc = "bookSave"
    /\ LET doc == NewBooking(req[s].a, req[s].cust.id)
       IN  IF ~ValidBooking(doc)
           THEN /\ req' = [req EXCEPT ![s] = Respond(@, 400, "ValidationError")]
                /\ UNCHANGED <<bookings, hist>>
           ELSE /\ bookings' = Append(bookings, doc)
                /\ hist' = Append(hist, [NoHist EXCEPT !.driverAtCreate = doc.driverId,
                                                       !.checkedAt = req[s].n0])
                /\ req' = [req EXCEPT ![s].pc = "driver", ![s].doc = doc,
                                      ![s].id = Len(bookings) + 1]
    /\ UNCHANGED <<customers, available, omitUndefined, carDeleted, nreq, softDeleted>>

\* lines 130-165: Driver.findByIdAndUpdate(driverId, {available: false}), then 201
CreateDriverUpdate(s) ==
    /\ req[s].op = "create" /\ req[s].pc = "driver"
    /\ available' = IF req[s].a.driverPreference = "driver"
                    THEN [available EXCEPT ![req[s].a.driverId] = FALSE]
                    ELSE available
    /\ req' = [req EXCEPT ![s].pc = "done",
                  ![s].resp = [NoResp EXCEPT !.status = 201,
                                 !.totalAmount = req[s].doc.totalBill,
                                 !.remainingx100 = RemainingBalancex100(req[s].doc)]]
    /\ UNCHANGED <<bookings, customers, omitUndefined, carDeleted, nreq, hist, softDeleted>>

\* res.json(...) / res.status(...).json(...): the response leaves, the slot is free
Finish(s) ==
    /\ req[s].pc = "done"
    /\ req' = [req EXCEPT ![s] = Idle]
    /\ UNCHANGED <<bookings, customers, available, omitUndefined, carDeleted, nreq, hist, softDeleted>>

\* `doc[path] = value; await doc.save()` on a document of a (strict) schema: save()
\* writes the modified paths of the schema; a property that is no path of the
\* schema stays on the in-memory object only
Saved(paths, path, value, stored) == IF path \in paths THEN value ELSE stored

\* ------------------------------------------------------------------ edit
\* JavaScript `x || y` on a number (0 and undefined are falsy)
OrElse(x, y) == IF x = 0 THEN y ELSE x

\* JavaScript `x || y` on a string ("" and undefined are falsy)
OrElseStr(x, y) == IF x = "" THEN y ELSE x

\* a key whose value is undefined in an update document: dropped by the caster
\* (the stored value stays) or written as null, depending on the Mongoose build
Undefined(stored, null) == IF omitUndefined THEN stored ELSE null

\* the update document of Booking.findByIdAndUpdate in router.patch("/:bookingId"),
\* applied to the stored document `cur`; `old` is the copy read by findById
EditedBooking(cur, old, a) ==
    [cur EXCEPT
       !.tripType = IF a.tripType = "within-city" THEN "withincity" ELSE "outofcity",
       !.cityName = IF a.tripType = "out-of-city" /\ a.cityName # ""
                    THEN a.cityName ELSE Undefined(cur.cityName, ""),
       !.startDate = OrElse(a.startDate, old.startDate),
       !.endDate = OrElse(a.endDate, old.endDate),
       !.meterReading = OrElse(a.meterReading, old.meterReading),
       !.totalBill = OrElse(a.totalBill, old.totalBill),
       !.advancePaid = OrElse(a.advancePaid, old.advancePaid),
       !.discountPercentage = OrElse(a.discountPercentage, old.discountPercentage),
       !.discountReference = OrElseStr(a.discountReference, old.discountReference),
       !.tripStartTime = OrElseStr(a.tripStartTime, old.tripStartTime),
       !.tripDescription = OrElseStr(a.tripDescription, old.tripDescription),
       !.driverPreference = OrElseStr(a.driverPreference, old.driverPreference),
       !.driverId = IF a.driverPreference = "driver"
                    THEN a.driverId ELSE Undefined(cur.driverId, 0),
       !.customerLicenseNumber = IF a.driverPreference = "self"
                    THEN a.customerLicenseNumber ELSE Undefined(cur.customerLicenseNumber, "")]

\* mutant: the edit re-runs the availability check on the new range
EditChecksWithAvailability(a, bs) ==
    IF a.bookingId \notin 1..Len(bs)
    THEN <<404, "Booking not found">>
    ELSE IF bs[a.bookingId].status # "active"
    THEN <<400, "Only active bookings can be edited">>
    ELSE IF a.driverPreference = "driver" /\ a.driverId = 0
    THEN <<400, "Driver ID is required when driver preference is 'driver'">>
    ELSE IF a.driverPreference = "self" /\ a.customerLicenseNumber = ""
    THEN <<400, "License number is required when driver preference is 'self'">>
    ELSE IF ~checkAvailability(bs, bs[a.bookingId].carId,
                               OrElse(a.startDate, bs[a.bookingId].startDate),
                               OrElse(a.endDate, bs[a.bookingId].endDate), a.bookingId)
    THEN <<400, "Car is not available for selected dates">>
    ELSE <<0, "">>

\* router.patch("/:bookingId"), the guards before the update.  <<0, "">>: all passed.
EditChecks(a, bs) ==
    IF a.bookingId \notin 1..Len(bs)
    THEN <<404, "Booking not found">>
    ELSE IF bs[a.bookingId].status # "active"
    THEN <<400, "Only active bookings can be edited">>
    ELSE IF a.driverPreference = "driver" /\ a.driverId = 0
    THEN <<400, "Driver ID is required when driver preference is 'driver'">>
    ELSE IF a.driverPreference = "self" /\ a.customerLicenseNumber = ""
    THEN <<400, "License number is required when driver preference is 'self'">>
    ELSE <<0, "">>

\* lines 530-575: Booking.findById and the guards
EditFind(s, a) ==
    /\ Accept(s)
    /\ LET chk == EditChecks(a, bookings)
           r   == [Idle EXCEPT !.op = "edit", !.a = a, !.id = a.bookingId,
                               !.n0 = Len(bookings)]
       IN  req' = [req EXCEPT ![s] =
                     IF chk[1] # 0 THEN Respond(r, chk[1], chk[2])
                     ELSE [r EXCEPT !.pc = "update", !.read = bookings[a.bookingId],
                                   !.doc = bookings[a.bookingId]]]
    /\ nreq' = nreq + 1
    /\ UNCHANGED <<bookings, customers, available, omitUndefined, carDeleted, hist, softDeleted>>

\* lines 577-646: Booking.findByIdAndUpdate(..., {new: true}) and the response
EditUpdate(s) ==
    /\ req[s].op = "edit" /\ req[s].pc = "update"
    /\ LET b   == req[s].id
           upd == EditedBooking(bookings[b], req[s].read, req[s].a)
       IN  /\ bookings' = [bookings EXCEPT ![b] = upd]
           /\ req' = [req EXCEPT ![s].pc = "done", ![s].doc = upd,
                         ![s].resp = [NoResp EXCEPT !.status = 200,
                                        !.totalAmount = upd.totalBill,
                                        !.remainingx100 = (upd.totalBill - upd.advancePaid) * 100]]
    /\ UNCHANGED <<customers, available, omitUndefined, carDeleted, nreq, hist, softDeleted>>

\* ---------------------------------------------------------------- cancel
\* mutant: the status guard of cancel left out
CancelChecksNoGuard(a, bs) ==
    IF a.bookingId \notin 1..Len(bs)
    THEN <<404, "Booking not found">>
    ELSE <<0, "">>

\* router.patch("/:bookingId/cancel"), the guards.  <<0, "">>: all passed.
CancelChecks(a, bs) ==
    IF a.bookingId \notin 1..Len(bs)
    THEN <<404, "Booking not found">>
    ELSE IF bs[a.bookingId].status # "active"
    THEN <<400, "Only active bookings can be cancelled">>
    ELSE <<0, "">>

\* after the guards: the driver is released first when there is one to release
AfterGuards(doc) == IF doc.driverPreference = "driver" THEN "driver" ELSE "save"

\* lines 658-683: Booking.findById, the guards, the in-memory status change
CancelFind(s, a) ==
    /\ Accept(s)
    /\ LET chk == CancelChecks(a, bookings)
           r   == [Idle EXCEPT !.op = "cancel", !.a = a, !.id = a.bookingId,
                               !.n0 = Len(bookings), !.av0 = available]
           doc == [bookings[a.bookingId] EXCEPT
                     !.status = "cancelled",
                     !.cancellationReason = OrElseStr(a.cancellationReason, "No reason provided"),
                     !.cancelledAt = nreq + 1,
                     !.cancelledBy = UserId]
       IN  req' = [req EXCEPT ![s] =
                     IF chk[1] # 0 THEN Respond(r, chk[1], chk[2])
                     ELSE [r EXCEPT !.pc = AfterGuards(doc), !.read = bookings[a.bookingId],
                                   !.doc = doc]]
    /\ nreq' = nreq + 1
    /\ UNCHANGED <<bookings, customers, available, omitUndefined, carDeleted, hist, softDeleted>>

\* lines 685-690 and 804-809: Driver.findByIdAndUpdate(booking.driverId._id,
\* {available: true}); booking.driverId is null when populate found no Driver
ReleaseDriver(s, failure) ==
    /\ req[s].pc = "driver"
    /\ IF req[s].doc.driverId \in Drivers
       THEN /\ available' = [available EXCEPT ![req[s].doc.driverId] = TRUE]
            /\ req' = [req EXCEPT ![s].pc = "save"]
       ELSE /\ req' = [req EXCEPT ![s] = Respond(@, 500, failure)]
            /\ UNCHANGED available
    /\ UNCHANGED <<bookings, customers, omitUndefined, carDeleted, nreq, hist, softDeleted>>

CancelDriver(s) ==
    /\ req[s].op = "cancel"
    /\ ReleaseDriver(s, "Failed to cancel booking")

\* lines 692-732: booking.save() (validation, then the modified paths), the response
CancelSave(s) ==
    /\ req[s].op = "cancel" /\ req[s].pc = "save"
    /\ LET doc == req[s].doc
       IN  IF ~ValidBooking(doc)
           THEN /\ req' = [req EXCEPT ![s] = Respond(@, 500, "Failed to cancel booking")]
                /\ UNCHANGED <<bookings, hist>>
           ELSE /\ bookings' = [bookings EXCEPT
                    ![req[s].id].status = Saved(BookingSchemaPaths, "status", doc.status, @),
                    ![req[s].id].cancellationReason =
                        Saved(BookingSchemaPaths, "cancellationReason", doc.cancellationReason, @),
                    ![req[s].id].cancelledAt =
                        Saved(BookingSchemaPaths, "cancelledAt", doc.cancelledAt, @),
                    ![req[s].id].cancelledBy =
                        Saved(BookingSchemaPaths, "cancelledBy", doc.cancelledBy, @)]
                /\ hist' = [hist EXCEPT ![req[s].id].ok = @ + 1,
                                        ![req[s].id].okStatus = doc.status]
                /\ req' = [req EXCEPT ![s].pc = "done",
                              ![s].resp = [NoResp EXCEPT !.status = 200,
                                  !.totalAmount = doc.totalBill,
                                  !.discountedTotalx100 = DiscountedTotalx100(doc),
                                  !.remainingx100 = DiscountedTotalx100(doc) - doc.advancePaid * 100]]
    /\ UNCHANGED <<customers, available, omitUndefined, carDeleted, nreq, softDeleted>>

\* ------------------------------------------------------------------- end
\* new Date(req.body.endTime) ... toTimeString().slice(0, 5): "" when the date is invalid
EndTimeOf(t) ==
    IF t = "2024-06-05T18:45:00" THEN "18:45"
    ELSE IF t = "2024-06-05T09:30:00" THEN "09:30"
    ELSE ""

\* mutant: the status guard of end left out
EndChecksNoGuard(a, bs) ==
    IF EndTimeOf(a.endTime) = ""
    THEN <<400, "Invalid end time format">>
    ELSE IF a.finalMeterReading = 0
    THEN <<400, "End time and final meter reading are required">>
    ELSE IF a.bookingId \notin 1..Len(bs)
    THEN <<404, "Booking not found">>
    ELSE IF a.finalMeterReading < bs[a.bookingId].meterReading
    THEN <<400, "Final meter reading cannot be less than initial meter reading">>
    ELSE <<0, "">>

\* mutant: the meter-reading guard of end left out
EndChecksNoMeter(a, bs) ==
    IF EndTimeOf(a.endTime) = ""
    THEN <<400, "Invalid end time format">>
    ELSE IF a.finalMeterReading = 0
    THEN <<400, "End time and final meter reading are required">>
    ELSE IF a.bookingId \notin 1..Len(bs)
    THEN <<404, "Booking not found">>
    ELSE IF bs[a.bookingId].status # "active"
    THEN <<400, "Only active bookings can be ended">>
    ELSE <<0, "">>

\* router.patch("/:bookingId/end"), the guards.  <<0, "">>: all passed.
EndChecks(a, bs) ==
    IF EndTimeOf(a.endTime) = ""
    THEN <<400, "Invalid end time format">>
    ELSE IF a.finalMeterReading = 0
    THEN <<400, "End time and final meter reading are required">>
    ELSE IF a.bookingId \notin 1..Len(bs)
    THEN <<404, "Booking not found">>
    ELSE IF bs[a.bookingId].status # "active"
    THEN <<400, "Only active bookings can be ended">>
    ELSE IF a.finalMeterReading < bs[a.bookingId].meterReading
    THEN <<400, "Final meter reading cannot be less than initial meter reading">>
    ELSE <<0, "">>

\* mutant: the additional charges are not added to the bill
UpdatedTotalBillNoCharges(b, a) == b.totalBill

\* lines 787-791: the final bill
UpdatedTotalBill(b, a) == b.totalBill + a.additionalCharges

FinalDiscountedTotalx100(b, a) ==
    UpdatedTotalBill(b, a) * 100 - UpdatedTotalBill(b, a) * b.discountPercentage

FinalRemainingx100(b, a) ==
    FinalDiscountedTotalx100(b, a) - b.advancePaid * 100 - a.remainingPayment * 100

\* lines 735-802: the guards, the final bill, the in-memory changes
EndFind(s, a) ==
    /\ Accept(s)
    /\ LET chk == EndChecks(a, bookings)
           r   == [Idle EXCEPT !.op = "end", !.a = a, !.id = a.bookingId,
                               !.n0 = Len(bookings), !.av0 = available]
           b   == bookings[a.bookingId]
           doc == [b EXCEPT !.status = "completed",
                            !.endTime = EndTimeOf(a.endTime),
                            !.finalMeterReading = a.finalMeterReading,
                            !.totalBill = UpdatedTotalBill(b, a),
                            !.additionalCharges = a.additionalCharges,
                            !.remainingPaymentReceived = a.remainingPayment,
                            !.completedAt = nreq + 1,
                            !.completedBy = UserId]
       IN  req' = [req EXCEPT ![s] =
                     IF chk[1] # 0 THEN Respond(r, chk[1], chk[2])
                     ELSE [r EXCEPT !.pc = AfterGuards(doc), !.read = b, !.doc = doc,
                              !.resp = [NoResp EXCEPT
                                  !.totalAmount = UpdatedTotalBill(b, a),
                                  !.discountedTotalx100 = FinalDiscountedTotalx100(b, a),
                                  !.remainingx100 = FinalRemainingx100(b, a)]]]
    /\ nreq' = nreq + 1
    /\ UNCHANGED <<bookings, customers, available, omitUndefined, carDeleted, hist, softDeleted>>

EndDriver(s) ==
    /\ req[s].op = "end"
    /\ ReleaseDriver(s, "Failed to end booking")

\* lines 811-861: booking.save() (validation, then the modified paths), the response
EndSave(s) ==
    /\ req[s].op = "end" /\ req[s].pc = "save"
    /\ LET doc == req[s].doc
       IN  IF ~ValidBooking(doc)
           THEN /\ req' = [req EXCEPT ![s] = Respond(@, 500, "Failed to end booking")]
                /\ UNCHANGED <<bookings, hist>>
           ELSE /\ bookings' = [bookings EXCEPT
                    ![req[s].id].status = Saved(BookingSchemaPaths, "status", doc.status, @),
                    ![req[s].id].endTime = Saved(BookingSchemaPaths, "endTime", doc.endTime, @),
                    ![req[s].id].totalBill =
                        IF req[s].a.additionalCharges # 0
                        THEN Saved(BookingSchemaPaths, "totalBill", doc.totalBill, @) ELSE @,
                    ![req[s].id].finalMeterReading =
                        Saved(BookingSchemaPaths, "finalMeterReading", doc.finalMeterReading, @),
                    ![req[s].id].additionalCharges =
                        Saved(BookingSchemaPaths, "additionalCharges", doc.additionalCharges, @),
                    ![req[s].id].remainingPaymentReceived =
                        Saved(BookingSchemaPaths, "remainingPaymentReceived",
                              doc.remainingPaymentReceived, @),
                    ![req[s].id].completedAt =
                        Saved(BookingSchemaPaths, "completedAt", doc.completedAt, @),
                    ![req[s].id].completedBy =
                        Saved(BookingSchemaPaths, "completedBy", doc.completedBy, @)]
                /\ hist' = [hist EXCEPT ![req[s].id].ok = @ + 1,
                                        ![req[s].id].okStatus = doc.status]
                /\ req' = [req EXCEPT ![s].pc = "done", ![s].resp.status = 200]
    /\ UNCHANGED <<customers, available, omitUndefined, carDeleted, nreq, softDeleted>>

\* ------------------------------------------------------------ car delete
\* the paths CarSchema declares
CarSchemaPaths == {"model", "year", "color", "registrationNumber", "chassisNumber",
                   "engineNumber", "image", "user"}

\* the statuses the delete guards of cars and drivers look for
Blocking == {"active", "pending"}

\* router.delete("/:carId"), lines 572-578: Car.findById
CarDeleteFind(s, a) ==
    /\ Accept(s)
    /\ LET r == [Idle EXCEPT !.op = "carDelete", !.a = a, !.n0 = Len(bookings)]
       IN  req' = [req EXCEPT ![s] =
                     IF a.carId \notin Cars THEN Respond(r, 404, "Car not found")
                     ELSE [r EXCEPT !.pc = "guard"]]
    /\ nreq' = nreq + 1
    /\ UNCHANGED <<bookings, customers, available, omitUndefined, carDeleted, hist, softDeleted>>

\* lines 580-589: Booking.findOne({carId, status: {$in: ['active', 'pending']}})
CarDeleteGuard(s) ==
    /\ req[s].op = "carDelete" /\ req[s].pc = "guard"
    /\ req' = [req EXCEPT ![s] =
                 IF \E i \in 1..Len(bookings) : /\ bookings[i].carId = req[s].a.carId
                                                /\ bookings[i].status \in Blocking
                 THEN Respond(@, 400, "Car cannot be deleted because it is currently booked.")
                 ELSE [@ EXCEPT !.pc = "save"]]
    /\ UNCHANGED <<bookings, customers, available, omitUndefined, carDeleted, nreq, hist, softDeleted>>

\* lines 591-603: car.deleted = true; await car.save(); the response echoes car.deleted
CarDeleteSave(s) ==
    /\ req[s].op = "carDelete" /\ req[s].pc = "save"
    /\ carDeleted' = [carDeleted EXCEPT ![req[s].a.carId] =
                         Saved(CarSchemaPaths, "deleted", TRUE, @)]
    /\ req' = [req EXCEPT ![s].pc = "done",
                  ![s].resp = [NoResp EXCEPT !.status = 200, !.deleted = TRUE]]
    /\ softDeleted' = softDeleted \cup {req[s].a.carId}
    /\ UNCHANGED <<bookings, customers, available, omitUndefined, nreq, hist>>

\* --------------------------------------------------------- driver delete
\* router.delete("/:driverId"), lines 131-139: Driver.findById
DriverDeleteFind(s, a) ==
    /\ Accept(s)
    /\ LET r == [Idle EXCEPT !.op = "driverDelete", !.a = a, !.n0 = Len(bookings)]
       IN  req' = [req EXCEPT ![s] =
                     IF a.driverId \notin Drivers THEN Respond(r, 404, "Driver not found")
                     ELSE [r EXCEPT !.pc = "guard"]]
    /\ nreq' = nreq + 1
    /\ UNCHANGED <<bookings, customers, available, omitUndefined, carDeleted, hist, softDeleted>>

\* mutant: the deactivation does not look at the bookings
DriverDeleteGuardNone(s) ==
    /\ req[s].op = "driverDelete" /\ req[s].pc = "guard"
    /\ req' = [req EXCEPT ![s].pc = "save"]
    /\ UNCHANGED <<bookings, customers, available, omitUndefined, carDeleted, nreq, hist, softDeleted>>

\* lines 141-151: Booking.find({driverId, status: {$in: ['active', 'pending']}})
DriverDeleteGuard(s) ==
    /\ req[s].op = "driverDelete" /\ req[s].pc = "guard"
    /\ req' = [req EXCEPT ![s] =
                 IF \E i \in 1..Len(bookings) : /\ bookings[i].driverId = req[s].a.driverId
                                                /\ bookings[i].status \in Blocking
                 THEN Respond(@, 400, "Cannot delete driver with active or pending bookings")
                 ELSE [@ EXCEPT !.pc = "save"]]
    /\ UNCHANGED <<bookings, customers, available, omitUndefined, carDeleted, nreq, hist, softDeleted>>

\* lines 153-166: driver.available = false; await driver.save(); the response
DriverDeleteSave(s) ==
    /\ req[s].op = "driverDelete" /\ req[s].pc = "save"
    /\ available' = [available EXCEPT ![req[s].a.driverId] = FALSE]
    /\ req' = [req EXCEPT ![s].pc = "done", ![s].resp = [NoResp EXCEPT !.status = 200]]
    /\ UNCHANGED <<bookings, customers, omitUndefined, carDeleted, nreq, hist, softDeleted>>

\* --------------------------------------------------------- car listing
\* router.get("/") and router.get("/:modelName") of cars.js: the vehicles of the
\* bookings that Booking.find({startDate: {$lt: end}, endDate: {$gt: start},
\* status: {$in: ['active', 'pending']}}) matches
unavailableCarIds(bs, start, end) ==
    { bs[i].carId : i \in { j \in 1..Len(bs) : /\ bs[j].startDate < end
                                              /\ bs[j].endDate > start
                                              /\ bs[j].status \in Blocking } }

\* const isAvailable = !unavailableCarIds.has(car._id.toString())
isAvailable(bs, carId, start, end) == carId \notin unavailableCarIds(bs, start, end)

\* ------------------------------------------------------- revenue rollups
\* totalBill * (100 - (discountPercentage || 0)) / 100 of one booking, times 100
Revenuex100(b) == b.totalBill * (100 - b.discountPercentage)

\* bookings.reduce((sum, booking) => sum + revenue(booking), 0) over the bookings
\* whose positions are in S, times 100
RECURSIVE SumRevenuex100(_, _)
SumRevenuex100(bs, S) ==
    IF S = {} THEN 0
    ELSE LET i == CHOOSE j \in S : TRUE
         IN  Revenuex100(bs[i]) + SumRevenuex100(bs, S \ {i})

\* router.get("/mine") of cars.js: totalRevenue of one car of the stakeholder, over
\* Booking.find({carId: {$in: carIds}, status: {$ne: 'active'}}), times 100
MineRevenuex100(bs, carId) ==
    SumRevenuex100(bs, { i \in 1..Len(bs) : bs[i].carId = carId /\ bs[i].status # "active" })

\* router.get("/detailed/info/:id") of cars.js: totalRevenue, over
\* Booking.find({carId}) filtered by status !== "cancelled", times 100
DetailRevenuex100(bs, carId) ==
    SumRevenuex100(bs, { i \in 1..Len(bs) : bs[i].carId = carId /\ bs[i].status # "cancelled" })

\* router.get("/") of dashboard.js: the revenue of the bookings found with
\* startDate in [from, to] (current month, previous month, each of the six
\* months of the series), times 100
DashboardRevenuex100(bs, from, to) ==
    SumRevenuex100(bs, { i \in 1..Len(bs) : bs[i].startDate >= from /\ bs[i].startDate <= to })

\* ------------------------------------------------------- request bodies
\* A well-formed create request, and the requests that differ from it in one respect.
BaseCreate ==
    [NoArgs EXCEPT !.carId = 1, !.driverPreference = "self",
                   !.customerLicenseNumber = "LIC-1", !.tripType = "within-city",
                   !.startDate = 1, !.endDate = 2, !.meterReading = 100,
                   !.totalBill = 10000, !.advancePaid = 3000,
                   !.discountPercentage = 10, !.discountReference = "promo",
                   !.customerName = "Ali", !.cellNumber = "03001111111",
                   !.careOf = "Khan", !.idCardNumber = "35201-1",
                   !.tripStartTime = "09:30"]

Money == { <<5000, 2000, 0, "">>, <<10000, 12000, 0, "">>, <<10000, 3000, 10, "">>,
           <<0, 0, 0, "">>, <<10000, 0, 0, "">>, <<10000, 3000, 150, "promo">>,
           <<10000, 10000, 100, "promo">> }

CreateInputs ==
    { [BaseCreate EXCEPT !.carId = c, !.startDate = d1, !.endDate = d2] :
        c \in Cars, d1 \in Dates, d2 \in Dates }
    \cup { [BaseCreate EXCEPT !.carId = c, !.driverPreference = "driver", !.driverId = d,
                              !.customerLicenseNumber = ""] :
             c \in Cars, d \in Drivers \cup {0, UnknownDriver} }
    \cup { [BaseCreate EXCEPT !.totalBill = m[1], !.advancePaid = m[2],
                              !.discountPercentage = m[3], !.discountReference = m[4]] :
             m \in Money }
    \cup { [BaseCreate EXCEPT !.tripType = t, !.cityName = n] :
             t \in {"", "out-of-city", "outofcity"}, n \in {"", "Lahore"} }
    \cup { [BaseCreate EXCEPT !.carId = 2, !.cellNumber = ph, !.idCardNumber = ic, !.careOf = co] :
             ph \in {"03001111111", "03002222222", "12345", ""},
             ic \in {"35201-1", "35201-2"}, co \in {"Khan", ""} }
    \cup { [BaseCreate EXCEPT !.startDate = MaxDate, !.endDate = MaxDate,
                              !.cellNumber = ph, !.idCardNumber = ic] :
             ph \in {"03001111111", "03002222222"}, ic \in {"35201-1", "35201-2"} }
    \cup { [BaseCreate EXCEPT !.carId = 0], [BaseCreate EXCEPT !.carId = UnknownCar],
           [BaseCreate EXCEPT !.meterReading = 0], [BaseCreate EXCEPT !.customerName = ""],
           [BaseCreate EXCEPT !.idCardNumber = ""], [BaseCreate EXCEPT !.tripStartTime = ""],
           [BaseCreate EXCEPT !.tripStartTime = "9h30"],
           [BaseCreate EXCEPT !.driverPreference = ""],
           [BaseCreate EXCEPT !.startDate = 0], [BaseCreate EXCEPT !.endDate = 0],
           [BaseCreate EXCEPT !.carId = UnknownCar, !.advancePaid = 12000],
           [BaseCreate EXCEPT !.carId = UnknownCar, !.discountReference = ""] }

BookingIds == {1, 2}

\* An edit that keeps the trip within the city, and the edits that add one change.
BaseEdit == [NoArgs EXCEPT !.tripType = "within-city"]

EditInputs ==
    { [e EXCEPT !.bookingId = b] : b \in BookingIds, e \in
        { [BaseEdit EXCEPT !.tripType = t, !.cityName = n] :
            t \in {"", "within-city", "out-of-city"}, n \in {"", "Lahore"} }
        \cup { [BaseEdit EXCEPT !.startDate = d1, !.endDate = d2] :
                 d1 \in {0, MaxDate}, d2 \in {0, 1, MaxDate} }
        \cup { [BaseEdit EXCEPT !.totalBill = 2000], [BaseEdit EXCEPT !.advancePaid = 12000],
               [BaseEdit EXCEPT !.discountPercentage = 20],
               [BaseEdit EXCEPT !.discountPercentage = 20, !.discountReference = "eid"],
               [BaseEdit EXCEPT !.meterReading = 200],
               [BaseEdit EXCEPT !.tripStartTime = "18:45"],
               [BaseEdit EXCEPT !.tripStartTime = "9h30"],
               [BaseEdit EXCEPT !.tripDescription = "airport"] }
        \cup { [BaseEdit EXCEPT !.driverPreference = "driver", !.driverId = d] :
                 d \in Drivers \cup {0, UnknownDriver} }
        \cup { [BaseEdit EXCEPT !.driverPreference = "self", !.customerLicenseNumber = l] :
                 l \in {"", "LIC-2"} } }

CancelInputs ==
    { [NoArgs EXCEPT !.bookingId = b, !.cancellationReason = r] :
        b \in BookingIds, r \in {"", "no show"} }

BaseEnd == [NoArgs EXCEPT !.endTime = "2024-06-05T18:45:00", !.finalMeterReading = 150,
                          !.additionalCharges = 500, !.remainingPayment = 1000]

EndInputs ==
    { [e EXCEPT !.bookingId = b] : b \in BookingIds, e \in
        { BaseEnd, [BaseEnd EXCEPT !.endTime = ""], [BaseEnd EXCEPT !.endTime = "18:45"],
          [BaseEnd EXCEPT !.finalMeterReading = 0], [BaseEnd EXCEPT !.finalMeterReading = 50],
          [BaseEnd EXCEPT !.finalMeterReading = 100],
          [BaseEnd EXCEPT !.additionalCharges = 0, !.remainingPayment = 0],
          [BaseEnd EXCEPT !.additionalCharges = -8000] } }

CarDeleteInputs == { [NoArgs EXCEPT !.carId = c] : c \in Cars \cup {UnknownCar} }

DriverDeleteInputs == { [NoArgs EXCEPT !.driverId = d] : d \in Drivers \cup {UnknownDriver} }

\* ------------------------------------------------------- specifications
\* One request at a time: a request is accepted only after the previous response.
Next ==
    \/ \E a \in CreateInputs : CreateCheck(1, a)
    \/ CreateCustomerFind(1)
    \/ CreateCustomerSave(1)
    \/ CreateBookingSave(1)
    \/ CreateDriverUpdate(1)
    \/ \E a \in EditInputs : EditFind(1, a)
    \/ EditUpdate(1)
    \/ \E a \in CancelInputs : CancelFind(1, a)
    \/ CancelDriver(1)
    \/ CancelSave(1)
    \/ \E a \in EndInputs : EndFind(1, a)
    \/ EndDriver(1)
    \/ EndSave(1)
    \/ \E a \in CarDeleteInputs : CarDeleteFind(1, a)
    \/ CarDeleteGuard(1)
    \/ CarDeleteSave(1)
    \/ \E a \in DriverDeleteInputs : DriverDeleteFind(1, a)
    \/ DriverDeleteGuard(1)
    \/ DriverDeleteSave(1)
    \/ Finish(1)

Spec == Init /\ [][Next]_vars

\* One request at a time, and no edit request: create, cancel, end, car delete.
NoEditNext ==
    \/ \E a \in CreateInputs : CreateCheck(1, a)
    \/ CreateCustomerFind(1)
    \/ CreateCustomerSave(1)
    \/ CreateBookingSave(1)
    \/ CreateDriverUpdate(1)
    \/ \E a \in CancelInputs : CancelFind(1, a)
    \/ CancelDriver(1)
    \/ CancelSave(1)
    \/ \E a \in EndInputs : EndFind(1, a)
    \/ EndDriver(1)
    \/ EndSave(1)
    \/ \E a \in CarDeleteInputs : CarDeleteFind(1, a)
    \/ CarDeleteGuard(1)
    \/ CarDeleteSave(1)
    \/ Finish(1)

NoEditSpec == Init /\ [][NoEditNext]_vars

\* One request at a time on the booking routes only: create, edit, cancel, end.
\* No driver is deactivated and no vehicle is deleted.
BookingNext ==
    \/ \E a \in CreateInputs : CreateCheck(1, a)
    \/ CreateCustomerFind(1)
    \/ CreateCustomerSave(1)
    \/ CreateBookingSave(1)
    \/ CreateDriverUpdate(1)
    \/ \E a \in EditInputs : EditFind(1, a)
    \/ EditUpdate(1)
    \/ \E a \in CancelInputs : CancelFind(1, a)
    \/ CancelDriver(1)
    \/ CancelSave(1)
    \/ \E a \in EndInputs : EndFind(1, a)
    \/ EndDriver(1)
    \/ EndSave(1)
    \/ Finish(1)

BookingSpec == Init /\ [][BookingNext]_vars

\* The steps of two requests interleave at their await points; the request bodies
\* are the few that make two requests meet on one vehicle, driver or booking.
ConcCreateInputs ==
    { [BaseCreate EXCEPT !.startDate = d[1], !.endDate = d[2]] :
        d \in {<<1, 2>>, <<2, MaxDate>>, <<MaxDate, MaxDate>>} }
    \cup { [BaseCreate EXCEPT !.carId = c, !.driverPreference = "driver", !.driverId = 1,
                              !.customerLicenseNumber = ""] : c \in Cars }

ConcEditInputs ==
    { [e EXCEPT !.bookingId = b] : b \in BookingIds, e \in
        { BaseEdit, [BaseEdit EXCEPT !.totalBill = 2000],
          [BaseEdit EXCEPT !.driverPreference = "self", !.customerLicenseNumber = "LIC-2"],
          [BaseEdit EXCEPT !.driverPreference = "driver", !.driverId = 2] } }

ConcEndInputs ==
    { [e EXCEPT !.bookingId = b] : b \in BookingIds, e \in
        { BaseEnd, [BaseEnd EXCEPT !.finalMeterReading = 50],
          [BaseEnd EXCEPT !.additionalCharges = -8000] } }

ConcNext ==
    \E s \in Slots :
        \/ \E a \in ConcCreateInputs : CreateCheck(s, a)
        \/ CreateCustomerFind(s)
        \/ CreateCustomerSave(s)
        \/ CreateBookingSave(s)
        \/ CreateDriverUpdate(s)
        \/ \E a \in ConcEditInputs : EditFind(s, a)
        \/ EditUpdate(s)
        \/ \E a \in CancelInputs : CancelFind(s, a)
        \/ CancelDriver(s)
        \/ CancelSave(s)
        \/ \E a \in ConcEndInputs : EndFind(s, a)
        \/ EndDriver(s)
        \/ EndSave(s)
        \/ \E a \in CarDeleteInputs : CarDeleteFind(s, a)
        \/ CarDeleteGuard(s)
        \/ CarDeleteSave(s)
        \/ \E a \in DriverDeleteInputs : DriverDeleteFind(s, a)
        \/ DriverDeleteGuard(s)
        \/ DriverDeleteSave(s)
        \/ Finish(s)

ConcSpec == Init /\ [][ConcNext]_vars

\* ------------------------------------------------------------ the claims
Terminal == {"completed", "cancelled"}

\* [s1, e1] and [s2, e2] share a day
ClosedOverlap(s1, e1, s2, e2) == ~(e1 < s2 \/ e2 < s1)

\* C1: with the requests served one at a time, a booking is stored with status
\* 'active', and the only status changes are active -> completed and
\* active -> cancelled: a completed or cancelled booking keeps its status.
C1_StatusMachine ==
    [][ /\ Len(bookings') >= Len(bookings)
        /\ \A i \in 1..Len(bookings') :
             IF i > Len(bookings)
             THEN bookings'[i].status = "active"
             ELSE \/ bookings'[i].status = bookings[i].status
                  \/ /\ bookings[i].status = "active"
                     /\ bookings'[i].status \in Terminal ]_vars

\* C1 witness: an edit, cancel or end request against a completed or cancelled
\* booking has been answered, and the booking still has that status
C1_Witness ==
    /\ req[1].pc = "done"
    /\ req[1].op \in {"edit", "cancel", "end"}
    /\ req[1].id \in 1..Len(bookings)
    /\ bookings[req[1].id].status \in Terminal
    /\ hist[req[1].id].ok = 1

\* the create requests that differ from the well-formed one in vehicle and range only
RangeRequests ==
    { [BaseCreate EXCEPT !.carId = c, !.startDate = d1, !.endDate = d2] :
        c \in Cars, d1 \in Dates, d2 \in Dates }

\* C2: served one after the other, a create request for a vehicle with an active
\* booking whose range shares a day with the requested one (a single common
\* endpoint included) is answered with a client error and stores no booking; a
\* well-formed create request whose range shares no day with any active booking of
\* the vehicle is answered 201 and stores the booking.
C2_SequentialCreate ==
    (req[1].pc = "done" /\ req[1].op = "create") =>
        LET a  == req[1].a
            n0 == req[1].n0
            overlap == \E i \in 1..n0 :
                          /\ bookings[i].carId = a.carId
                          /\ bookings[i].status = "active"
                          /\ ClosedOverlap(bookings[i].startDate, bookings[i].endDate,
                                           a.startDate, a.endDate)
        IN  /\ overlap => /\ req[1].resp.status \in {400, 404}
                          /\ Len(bookings) = n0
            /\ (~overlap /\ a \in RangeRequests /\ a.startDate <= a.endDate) =>
                   /\ req[1].resp.status = 201
                   /\ Len(bookings) = n0 + 1
                   /\ bookings[n0 + 1].carId = a.carId
                   /\ bookings[n0 + 1].startDate = a.startDate
                   /\ bookings[n0 + 1].endDate = a.endDate
                   /\ bookings[n0 + 1].status = "active"

\* C2 witness: two active bookings of one vehicle on disjoint ranges are stored, and
\* a third request whose range starts on the last day of one of them is refused
C2_Witness ==
    /\ req[1].pc = "done" /\ req[1].op = "create"
    /\ req[1].resp.error = "Car is not available for selected dates"
    /\ Len(bookings) = 2
    /\ bookings[1].carId = bookings[2].carId
    /\ bookings[1].status = "active" /\ bookings[2].status = "active"
    /\ \E i \in 1..2 : /\ bookings[i].carId = req[1].a.carId
                       /\ bookings[i].endDate = req[1].a.startDate
                       /\ bookings[i].startDate < req[1].a.startDate

\* the candidates checkAvailability is asked about
Candidates ==
    [carId : Cars \cup {UnknownCar}, startDate : Dates, endDate : Dates,
     excludeBookingId : 0..Len(bookings)]

\* C3 as stated: the range is free iff no booking of the vehicle, the excluded one
\* apart, that is not cancelled shares a day with it (a completed booking blocks).
C3_NotCancelledBlocks ==
    \A c \in Candidates :
        checkAvailability(bookings, c.carId, c.startDate, c.endDate, c.excludeBookingId)
        <=> ~\E i \in 1..Len(bookings) :
                /\ i # c.excludeBookingId
                /\ bookings[i].carId = c.carId
                /\ bookings[i].status # "cancelled"
                /\ ClosedOverlap(bookings[i].startDate, bookings[i].endDate,
                                 c.startDate, c.endDate)

\* C3 amended: the range is free iff no ACTIVE booking of the vehicle, the excluded
\* one apart, shares a day with it; a completed or cancelled booking never blocks,
\* and a vehicle without bookings (an unknown id) is free.
C3_ActiveBlocks ==
    \A c \in Candidates :
        checkAvailability(bookings, c.carId, c.startDate, c.endDate, c.excludeBookingId)
        <=> ~\E i \in 1..Len(bookings) :
                /\ i # c.excludeBookingId
                /\ bookings[i].carId = c.carId
                /\ bookings[i].status = "active"
                /\ ClosedOverlap(bookings[i].startDate, bookings[i].endDate,
                                 c.startDate, c.endDate)

\* C3 witness: a booking was stored on the days of a completed booking of its vehicle
C3_Witness ==
    \E i, j \in 1..Len(bookings) :
        /\ i < j
        /\ bookings[i].carId = bookings[j].carId
        /\ bookings[i].status = "completed"
        /\ bookings[j].status = "active"
        /\ hist[j].checkedAt >= i
        /\ ClosedOverlap(bookings[i].startDate, bookings[i].endDate,
                         bookings[j].startDate, bookings[j].endDate)

\* C4 as stated: right after a create with driverPreference 'driver' is answered
\* 201 the assigned driver is not available, and right after a cancel or end of that
\* booking is answered 200 the driver assigned at its creation is available.
C4_DriverAvailability ==
    /\ (req[1].pc = "done" /\ req[1].op = "create" /\ req[1].resp.status = 201
        /\ req[1].a.driverPreference = "driver")
           => ~available[req[1].a.driverId]
    /\ (req[1].pc = "done" /\ req[1].op \in {"cancel", "end"} /\ req[1].resp.status = 200
        /\ hist[req[1].id].driverAtCreate # 0)
           => available[hist[req[1].id].driverAtCreate]

IllegalState == {"Only active bookings can be cancelled", "Only active bookings can be ended"}

InvalidInput == {"Invalid end time format", "End time and final meter reading are required"}

\* a cancel or end request arrives for a stored booking that is completed or cancelled
ArrivesForTerminal ==
    /\ req[1] = Idle
    /\ req'[1].op \in {"cancel", "end"}
    /\ req'[1].id \in 1..Len(bookings)
    /\ bookings[req'[1].id].status \in Terminal

\* C5 as stated: a cancel or end request on a completed or cancelled booking is
\* answered 400 with the illegal-state error, and nothing stored changes.
C5_IllegalStateAlways ==
    [][ ArrivesForTerminal =>
          /\ req'[1].pc = "done"
          /\ req'[1].resp.status = 400
          /\ req'[1].resp.error \in IllegalState
          /\ bookings' = bookings
          /\ available' = available ]_vars

\* C5 amended: such a request is answered 400 and nothing stored changes; the
\* error is the illegal-state one, except for an end request whose endTime is no
\* date or whose finalMeterReading is missing or 0, which gets the invalid-input one.
C5_RejectedUnchanged ==
    [][ ArrivesForTerminal =>
          /\ req'[1].pc = "done"
          /\ req'[1].resp.status = 400
          /\ IF /\ req'[1].op = "end"
                /\ \/ EndTimeOf(req'[1].a.endTime) = ""
                   \/ req'[1].a.finalMeterReading = 0
             THEN req'[1].resp.error \in InvalidInput
             ELSE req'[1].resp.error \in IllegalState
          /\ bookings' = bookings
          /\ available' = available ]_vars

\* C5 witness: a well-formed end request on a cancelled booking was refused
C5_Witness ==
    /\ req[1].pc = "done" /\ req[1].op = "end"
    /\ req[1].resp.error = "Only active bookings can be ended"
    /\ bookings[req[1].id].status = "cancelled"
    /\ bookings[req[1].id].driverPreference = "driver"

\* two stored bookings of one vehicle, both active, whose ranges share a day
DoubleBooked(i, j) ==
    /\ i < j
    /\ bookings[i].carId = bookings[j].carId
    /\ bookings[i].status = "active" /\ bookings[j].status = "active"
    /\ ClosedOverlap(bookings[i].startDate, bookings[i].endDate,
                     bookings[j].startDate, bookings[j].endDate)

\* C6: with the steps of create requests interleaved, two active bookings of one
\* vehicle share a day only when the availability check of the one written later
\* ran before the other was written (the read-then-write race); the witness
\* shows that this state is reached.
C6_RaceOnly ==
    \A i, j \in 1..Len(bookings) : DoubleBooked(i, j) => hist[j].checkedAt < i

\* C6 witness: a vehicle is double-booked, both requests answered, no request pending
C6_Witness ==
    /\ \E i, j \in 1..Len(bookings) : DoubleBooked(i, j) /\ hist[j].checkedAt < i
    /\ \A s \in Slots : req[s].pc \in {"idle", "done"}

\* C7 as stated: of the cancel and end requests against one booking, interleaved
\* or not, at most one is answered 200, and once no request is pending the stored
\* status is the one that request set.
C7_TransitionsOnce ==
    \A b \in 1..Len(bookings) :
        /\ hist[b].ok <= 1
        /\ (hist[b].ok = 1 /\ \A s \in Slots : req[s] = Idle)
              => bookings[b].status = hist[b].okStatus

\* remaining = (totalBill - totalBill*discountPercentage/100) - advancePaid, times 100
BillingIdentityx100(b) ==
    (b.totalBill * 100 - b.totalBill * b.discountPercentage) - b.advancePaid * 100

\* C8 as stated: every endpoint that reports a remaining amount reports the
\* billing identity, for every stored booking and in every create, update and
\* cancel response.
C8_BillingIdentity ==
    /\ \A i \in 1..Len(bookings) :
         /\ ListRemainingx100(bookings[i]) = BillingIdentityx100(bookings[i])
         /\ ActiveRemainingx100(bookings[i]) = BillingIdentityx100(bookings[i])
         /\ StatusRemainingx100(bookings[i]) = BillingIdentityx100(bookings[i])
         /\ DetailsRemainingx100(bookings[i]) = BillingIdentityx100(bookings[i])
         /\ EditViewRemainingx100(bookings[i]) = BillingIdentityx100(bookings[i])
    /\ (req[1].pc = "done" /\ req[1].op \in {"create", "edit", "cancel"}
        /\ req[1].resp.status \in {200, 201})
           => req[1].resp.remainingx100 = BillingIdentityx100(req[1].doc)

\* C9: an end request answered 200 reports updatedTotalBill = totalBill +
\* additionalCharges, discountedTotal = updatedTotalBill less the discount and
\* finalRemainingBalance = discountedTotal - advancePaid - remainingPayment, over
\* the booking as it was stored, and the stored totalBill is updatedTotalBill.
C9_FinalBill ==
    (req[1].pc = "done" /\ req[1].op = "end" /\ req[1].resp.status = 200) =>
        LET b == req[1].read
            a == req[1].a
            updated == b.totalBill + a.additionalCharges
        IN  /\ req[1].resp.totalAmount = updated
            /\ req[1].resp.discountedTotalx100 = updated * (100 - b.discountPercentage)
            /\ req[1].resp.remainingx100 =
                 updated * (100 - b.discountPercentage)
                 - 100 * b.advancePaid - 100 * a.remainingPayment
            /\ bookings[req[1].id].totalBill = updated
            /\ bookings[req[1].id].status = "completed"

\* C9 witness: totalBill 5000, no discount, additional charges 500, advance 2000,
\* remaining payment 1000 are answered with 5500, 5500 and 2500
C9_Witness ==
    /\ req[1].pc = "done" /\ req[1].op = "end" /\ req[1].resp.status = 200
    /\ req[1].read.totalBill = 5000 /\ req[1].read.discountPercentage = 0
    /\ req[1].read.advancePaid = 2000
    /\ req[1].a.additionalCharges = 500 /\ req[1].a.remainingPayment = 1000
    /\ req[1].resp.totalAmount = 5500
    /\ req[1].resp.discountedTotalx100 = 550000
    /\ req[1].resp.remainingx100 = 250000

\* C10 as stated: every stored booking has advancePaid <= totalBill.
C10_AdvanceWithinBill ==
    \A i \in 1..Len(bookings) : bookings[i].advancePaid <= bookings[i].totalBill

\* C11: a create request with advancePaid > totalBill is answered with a client
\* error and stores no booking; the error is 400, or the 404 of an unknown vehicle
\* or driver, which is checked first.
C11_AdvanceRejected ==
    (req[1].pc = "done" /\ req[1].op = "create"
     /\ req[1].a.advancePaid > req[1].a.totalBill) =>
        /\ \/ req[1].resp.status = 400
           \/ /\ req[1].resp.status = 404
              /\ \/ req[1].a.carId \notin Cars
                 \/ req[1].a.driverId \notin Drivers
        /\ Len(bookings) = req[1].n0

\* C11 witness: a request that passes every check of the handler and asks for an
\* advance above the bill was refused by the validation of save()
C11_Witness ==
    /\ req[1].pc = "done" /\ req[1].op = "create"
    /\ req[1].a.advancePaid > req[1].a.totalBill
    /\ CreateChecks(req[1].a, bookings)[1] = 0
    /\ req[1].resp.status = 400 /\ req[1].resp.error = "ValidationError"
    /\ Len(bookings) = req[1].n0

\* C12: a create request with discountPercentage > 0 and no discountReference is
\* answered with a client error (400, or the 404 of an unknown vehicle or driver)
\* and stores no booking.
C12_DiscountNeedsReference ==
    (req[1].pc = "done" /\ req[1].op = "create"
     /\ req[1].a.discountPercentage > 0 /\ req[1].a.discountReference = "") =>
        /\ \/ req[1].resp.status = 400
           \/ /\ req[1].resp.status = 404
              /\ \/ req[1].a.carId \notin Cars
                 \/ req[1].a.driverId \notin Drivers
        /\ Len(bookings) = req[1].n0

\* C12 witness: a request with a 10% discount and no reference, well-formed
\* otherwise, was refused by the validation of save()
C12_Witness ==
    /\ req[1].pc = "done" /\ req[1].op = "create"
    /\ req[1].a.discountPercentage = 10 /\ req[1].a.discountReference = ""
    /\ req[1].a.advancePaid <= req[1].a.totalBill
    /\ CreateChecks(req[1].a, bookings)[1] = 0
    /\ req[1].resp.status = 400 /\ req[1].resp.error = "ValidationError"
    /\ Len(bookings) = req[1].n0

\* an end request arrives for a stored booking with a finalMeterReading below the
\* stored meterReading
ArrivesWithLowMeter ==
    /\ req[1] = Idle
    /\ req'[1].op = "end"
    /\ req'[1].id \in 1..Len(bookings)
    /\ req'[1].a.finalMeterReading < bookings[req'[1].id].meterReading

\* C13: an end request whose finalMeterReading is below the stored meterReading is
\* answered 400 at once; the booking keeps its status and totalBill (every stored
\* booking is unchanged) and every driver keeps its available flag.
C13_LowMeterRejected ==
    [][ ArrivesWithLowMeter =>
          /\ req'[1].pc = "done"
          /\ req'[1].resp.status = 400
          /\ bookings' = bookings
          /\ available' = available ]_vars

\* C13 witness: a well-formed end request with a final reading below the stored one
\* was refused for an active booking whose driver is still assigned and unavailable
C13_Witness ==
    /\ req[1].pc = "done" /\ req[1].op = "end"
    /\ req[1].resp.status = 400
    /\ req[1].resp.error = "Final meter reading cannot be less than initial meter reading"
    /\ req[1].a.finalMeterReading > 0
    /\ req[1].a.finalMeterReading < bookings[req[1].id].meterReading
    /\ bookings[req[1].id].status = "active"
    /\ bookings[req[1].id].driverPreference = "driver"
    /\ bookings[req[1].id].driverId \in Drivers
    /\ ~available[bookings[req[1].id].driverId]

\* the edit request in slot 1 is answered 200 in this step
EditApplied ==
    /\ req[1].op = "edit" /\ req[1].pc = "update"
    /\ req'[1].pc = "done" /\ req'[1].resp.status = 200

\* C14 as stated: an edit answered 200 leaves every editable field that the request
\* does not supply at its stored value.
C14_PartialUpdate ==
    [][ EditApplied =>
          LET a   == req[1].a
              old == bookings[req[1].id]
              new == bookings'[req[1].id]
          IN  /\ a.tripType = "" => new.tripType = old.tripType
              /\ a.cityName = "" => new.cityName = old.cityName
              /\ a.startDate = 0 => new.startDate = old.startDate
              /\ a.endDate = 0 => new.endDate = old.endDate
              /\ a.meterReading = 0 => new.meterReading = old.meterReading
              /\ a.totalBill = 0 => new.totalBill = old.totalBill
              /\ a.advancePaid = 0 => new.advancePaid = old.advancePaid
              /\ a.discountPercentage = 0 => new.discountPercentage = old.discountPercentage
              /\ a.discountReference = "" => new.discountReference = old.discountReference
              /\ a.tripStartTime = "" => new.tripStartTime = old.tripStartTime
              /\ a.tripDescription = "" => new.tripDescription = old.tripDescription
              /\ a.driverPreference = "" => new.driverPreference = old.driverPreference
              /\ a.driverId = 0 => new.driverId = old.driverId
              /\ a.customerLicenseNumber = "" =>
                   new.customerLicenseNumber = old.customerLicenseNumber ]_vars

\* C15: an edit of an active booking that carries a driverId with preference
\* 'driver' and a licence number with preference 'self' is answered 200 and stores
\* the requested range, whatever the other active bookings of the vehicle are; no
\* edit is answered with the conflict error.
C15_EditIgnoresOverlap ==
    (req[1].pc = "done" /\ req[1].op = "edit") =>
        LET a == req[1].a
        IN  /\ req[1].resp.error # "Car is not available for selected dates"
            /\ ( /\ req[1].id \in 1..Len(bookings)
                 /\ bookings[req[1].id].status = "active"
                 /\ ~(a.driverPreference = "driver" /\ a.driverId = 0)
                 /\ ~(a.driverPreference = "self" /\ a.customerLicenseNumber = "") )
               => /\ req[1].resp.status = 200
                  /\ a.startDate # 0 => bookings[req[1].id].startDate = a.startDate
                  /\ a.endDate # 0 => bookings[req[1].id].endDate = a.endDate

\* C15 witness: two bookings of one vehicle were created on disjoint ranges, one
\* after the other, and an edit answered 200 moved one onto the days of the other
C15_Witness ==
    /\ req[1].pc = "done" /\ req[1].op = "edit" /\ req[1].resp.status = 200
    /\ \E i, j \in 1..Len(bookings) :
          /\ DoubleBooked(i, j)
          /\ hist[j].checkedAt >= i
          /\ req[1].id \in {i, j}
          /\ ~ClosedOverlap(req[1].read.startDate, req[1].read.endDate,
                            bookings[IF req[1].id = i THEN j ELSE i].startDate,
                            bookings[IF req[1].id = i THEN j ELSE i].endDate)

\* the checks of create in the stated order, with the stated status of each:
\* required fields 400, vehicle 404, driver (preference 'driver') 404,
\* availability 400, city name of an out-of-city trip 400; 0 when none fails
StatedCreateCheck(a, bs) ==
    IF \/ a.carId = 0 \/ a.tripType = "" \/ a.startDate = 0 \/ a.endDate = 0
       \/ a.meterReading = 0 \/ a.totalBill = 0 \/ a.advancePaid = 0
       \/ a.customerName = "" \/ a.cellNumber = "" \/ a.idCardNumber = ""
       \/ a.tripStartTime = "" \/ a.driverPreference = ""
    THEN 400
    ELSE IF a.carId \notin Cars THEN 404
    ELSE IF a.driverPreference = "driver" /\ a.driverId \notin Drivers THEN 404
    ELSE IF ~\A i \in 1..Len(bs) :
               ~(/\ bs[i].carId = a.carId /\ bs[i].status = "active"
                 /\ ClosedOverlap(bs[i].startDate, bs[i].endDate, a.startDate, a.endDate))
    THEN 400
    ELSE IF a.tripType = "out-of-city" /\ a.cityName = "" THEN 400
    ELSE 0

\* C16 as stated: a create request that fails one of the five checks is answered
\* at once with the status of the first failing check, and no booking, customer or
\* driver record is created or modified.
C16_CheckOrder ==
    [][ (req[1] = Idle /\ req'[1].op = "create"
         /\ StatedCreateCheck(req'[1].a, bookings) # 0) =>
          /\ req'[1].pc = "done"
          /\ req'[1].resp.status = StatedCreateCheck(req'[1].a, bookings)
          /\ bookings' = bookings
          /\ customers' = customers
          /\ available' = available ]_vars

\* C17: after a create answered 201, if a customer with the request's phone number
\* or ID card number was stored on arrival, no customer was added, the booking
\* references one of those customers, whose bookingCount is one greater and whose
\* phone and ID card numbers are unchanged, and every other customer is unchanged;
\* otherwise exactly one customer was added, with the request's phone and ID card
\* numbers and bookingCount 1, and the booking references it.
C17_CustomerUpsert ==
    (req[1].pc = "done" /\ req[1].op = "create" /\ req[1].resp.status = 201) =>
        LET a   == req[1].a
            c0  == req[1].c0
            cid == bookings[req[1].id].customerId
            matches == { i \in 1..Len(c0) : \/ c0[i].phoneNumber = a.cellNumber
                                            \/ c0[i].idCardNumber = a.idCardNumber }
        IN  /\ \A i \in 1..Len(c0) : i # cid => customers[i] = c0[i]
            /\ IF matches # {}
               THEN /\ Len(customers) = Len(c0)
                    /\ cid \in matches
                    /\ customers[cid].bookingCount = c0[cid].bookingCount + 1
                    /\ customers[cid].phoneNumber = c0[cid].phoneNumber
                    /\ customers[cid].idCardNumber = c0[cid].idCardNumber
               ELSE /\ Len(customers) = Len(c0) + 1
                    /\ cid = Len(customers)
                    /\ customers[cid].bookingCount = 1
                    /\ customers[cid].phoneNumber = a.cellNumber
                    /\ customers[cid].idCardNumber = a.idCardNumber

\* C17 witness: a second customer was created by a booking, and a third create,
\* with the phone number of the first customer and another ID card number, was
\* answered 201 and counted on the first customer
C17_Witness ==
    /\ req[1].pc = "done" /\ req[1].op = "create" /\ req[1].resp.status = 201
    /\ Len(req[1].c0) = 2 /\ Len(customers) = 2
    /\ bookings[req[1].id].customerId = 1
    /\ customers[1].phoneNumber = req[1].a.cellNumber
    /\ customers[1].idCardNumber # req[1].a.idCardNumber
    /\ customers[1].bookingCount = 2
    /\ customers[2].bookingCount = 1

\* the request in slot 1 for route `op` is answered in this step
Answered(op) ==
    /\ req'[1].op = op
    /\ req[1].pc # "done" /\ req'[1].pc = "done"

\* C18 as stated: a delete request for a stored vehicle with an active (or pending)
\* booking is answered 400 and leaves the deleted flag as it was; otherwise it is
\* answered 200 and the stored deleted flag is true; no vehicle record and no
\* booking is removed or changed.
C18_SoftDelete ==
    [][ (Answered("carDelete") /\ req'[1].a.carId \in Cars) =>
          LET c == req'[1].a.carId
          IN  /\ IF \E i \in 1..Len(bookings) : /\ bookings[i].carId = c
                                                 /\ bookings[i].status \in Blocking
                 THEN /\ req'[1].resp.status = 400
                      /\ carDeleted' = carDeleted
                 ELSE /\ req'[1].resp.status = 200
                      /\ carDeleted' = [carDeleted EXCEPT ![c] = TRUE]
              /\ DOMAIN carDeleted' = Cars
              /\ bookings' = bookings ]_vars

\* C19: a deactivation request for a stored driver that a booking with status
\* 'active' (or 'pending') references is answered 400 and leaves every available
\* flag as it was; otherwise it is answered 200 and sets the driver's available flag
\* to false; no driver, booking or customer record is removed or changed.
C19_DriverDeactivation ==
    [][ (Answered("driverDelete") /\ req'[1].a.driverId \in Drivers) =>
          LET d == req'[1].a.driverId
          IN  /\ IF \E i \in 1..Len(bookings) : /\ bookings[i].driverId = d
                                                 /\ bookings[i].status \in Blocking
                 THEN /\ req'[1].resp.status = 400
                      /\ available' = available
                 ELSE /\ req'[1].resp.status = 200
                      /\ available' = [available EXCEPT ![d] = FALSE]
              /\ DOMAIN available' = Drivers
              /\ bookings' = bookings
              /\ customers' = customers ]_vars

\* C19 witness: the deactivation of a driver assigned to an active booking was
\* refused after the deactivation of the other, unassigned driver was accepted
C19_Witness ==
    /\ req[1].pc = "done" /\ req[1].op = "driverDelete"
    /\ req[1].resp.status = 400
    /\ \E i \in 1..Len(bookings) : /\ bookings[i].driverId = req[1].a.driverId
                                    /\ bookings[i].driverPreference = "driver"
                                    /\ bookings[i].status = "active"
    /\ \E d \in Drivers : /\ d # req[1].a.driverId
                          /\ ~available[d]
                          /\ \A i \in 1..Len(bookings) : bookings[i].driverId # d

\* C20 as stated: in every revenue rollup the total is the sum of
\* totalBill * (100 - discountPercentage) / 100 over the bookings of its scope that
\* are not cancelled (the scope: the bookings the rollup's query finds).
C20_CancelledExcluded ==
    /\ \A c \in Cars :
         /\ DetailRevenuex100(bookings, c) =
              SumRevenuex100(bookings, { i \in 1..Len(bookings) :
                  bookings[i].carId = c /\ bookings[i].status # "cancelled" })
         /\ MineRevenuex100(bookings, c) =
              SumRevenuex100(bookings, { i \in 1..Len(bookings) :
                  /\ bookings[i].carId = c
                  /\ bookings[i].status \notin {"active", "cancelled"} })
    /\ \A from \in Dates, to \in Dates :
         DashboardRevenuex100(bookings, from, to) =
           SumRevenuex100(bookings, { i \in 1..Len(bookings) :
               /\ bookings[i].startDate >= from /\ bookings[i].startDate <= to
               /\ bookings[i].status # "cancelled" })

\* C21 as stated: every stored booking has endDate >= startDate.
C21_EndNotBeforeStart ==
    \A i \in 1..Len(bookings) : bookings[i].endDate >= bookings[i].startDate

\* C22 as stated: every stored booking whose tripType is 'outofcity' has a
\* non-empty cityName.
C22_OutOfCityHasCity ==
    \A i \in 1..Len(bookings) :
        bookings[i].tripType = "outofcity" => bookings[i].cityName # ""

\* C23 as stated: after an end request answered 200 the stored booking holds the
\* final meter reading, the additional charges, the remaining payment received and
\* the completion time and actor; after a cancel request answered 200 it holds the
\* cancellation reason, time and actor.
C23_TransitionMetadata ==
    /\ (req[1].pc = "done" /\ req[1].op = "end" /\ req[1].resp.status = 200) =>
          LET b == bookings[req[1].id]
          IN  /\ b.finalMeterReading = req[1].a.finalMeterReading
              /\ b.additionalCharges = req[1].a.additionalCharges
              /\ b.remainingPaymentReceived = req[1].a.remainingPayment
              /\ b.completedAt # 0
              /\ b.completedBy = UserId
    /\ (req[1].pc = "done" /\ req[1].op = "cancel" /\ req[1].resp.status = 200) =>
          LET b == bookings[req[1].id]
          IN  /\ b.cancellationReason = OrElseStr(req[1].a.cancellationReason,
                                                  "No reason provided")
              /\ b.cancelledAt # 0
              /\ b.cancelledBy = UserId

\* C24: with the requests served one at a time and no edit served, no two active
\* bookings of one vehicle have ranges that share a day.
C24_NoDoubleBooking ==
    \A i, j \in 1..Len(bookings) : ~DoubleBooked(i, j)

\* C24 witness: a booking was cancelled and the vehicle was booked again, after
\* that, on days of the cancelled booking
C24_Witness ==
    \E i, k \in 1..Len(bookings) :
        /\ k < i
        /\ bookings[k].carId = bookings[i].carId
        /\ bookings[i].status = "active"
        /\ bookings[k].status = "cancelled"
        /\ hist[i].checkedAt >= k
        /\ ClosedOverlap(bookings[k].startDate, bookings[k].endDate,
                         bookings[i].startDate, bookings[i].endDate)

\* driver d is the driver of an active booking
AssignedActive(d) ==
    \E i \in 1..Len(bookings) : /\ bookings[i].driverId = d
                                /\ bookings[i].driverPreference = "driver"
                                /\ bookings[i].status = "active"

\* C25 as stated: with the requests served one at a time and no edit served, once
\* every request is answered, every driver of an active booking is unavailable.
C25_AssignedUnavailable ==
    req[1] = Idle => \A d \in Drivers : AssignedActive(d) => ~available[d]

\* C26 as stated: with the booking requests served one at a time and no driver
\* deactivated, once every request is answered, every driver that no active
\* booking references is available.
C26_UnassignedAvailable ==
    req[1] = Idle =>
        \A d \in Drivers :
            (\A i \in 1..Len(bookings) :
                 bookings[i].status = "active" => bookings[i].driverId # d)
            => available[d]

\* C27 as stated: when a cancel or end request is answered with an error, every
\* driver's available flag is what it was when the request arrived.
C27_FailedKeepsDriver ==
    (req[1].pc = "done" /\ req[1].op \in {"cancel", "end"} /\ req[1].resp.status # 200)
        => available = req[1].av0

\* the stored bookings that reference customer c
BookingsOf(c) == { i \in 1..Len(bookings) : bookings[i].customerId = c }

\* C28 as stated: once every request is answered, each customer's bookingCount
\* is the number of stored bookings that reference the customer, and a create
\* answered with an error leaves the customers as they were on arrival.
C28_BookingCount ==
    /\ req[1] = Idle =>
          \A c \in 1..Len(customers) :
              customers[c].bookingCount = Cardinality(BookingsOf(c))
    /\ (req[1].pc = "done" /\ req[1].op = "create" /\ req[1].resp.status # 201)
          => /\ Len(customers) = Len(req[1].c0)
             /\ \A c \in 1..Len(customers) :
                    customers[c].bookingCount = req[1].c0[c].bookingCount

\* the soft-deleted vehicles: the stored flag is true, or the delete request was
\* answered 200 with deleted: true
DeletedCars == softDeleted \cup { c \in Cars : carDeleted[c] }

\* C29 as stated: with vehicle deletes and booking creates, cancels and ends
\* served one at a time, no active booking references a soft-deleted vehicle.
C29_NoActiveOnDeleted ==
    \A i \in 1..Len(bookings) :
        bookings[i].status = "active" => bookings[i].carId \notin DeletedCars

\* C30 as stated: in every store state, for every vehicle and every range with
\* start < end, the listing counts the vehicle as available exactly when the
\* availability check of create accepts the vehicle for that range.
C30_ListingAgreesWithCreate ==
    \A c \in Cars : \A d1, d2 \in Dates :
        d1 < d2 => (isAvailable(bookings, c, d1, d2)
                      <=> checkAvailability(bookings, c, d1, d2, 0))

====
